---- MODULE Spec2Model ----
(***************************************************************************)
(* Model of the code generated by #[tested_fixture] (macros/src/lib.rs)    *)
(* and of the runtime helpers it calls (src/lib.rs, mod helpers).          *)
(*                                                                         *)
(* For every annotated function the macro emits                            *)
(*   - a binding `static FIXTURE: Lazy<&T> = Lazy::new(|| unwrap(func))`,  *)
(*   - a #[test] function `func` owning `static CELL: OnceCell<..>` which  *)
(*     runs the original body under catch_unwind inside CELL.get_or_init   *)
(*     and then wraps the cached result with the Fixer/Fix chain.          *)
(* Tests run as threads of one process.  A thread runs producing tests     *)
(* (calls `func` directly) and dependent tests (dereference FIXTURE).      *)
(* Lazy and OnceCell are once_cell::sync::{Lazy, OnceCell}, re-exported by *)
(* helpers; their three-state protocol (incomplete / running / complete)   *)
(* is modelled at the call sites in the generated code.                    *)
(***************************************************************************)
EXTENDS Integers, Sequences, FiniteSets, TLC

\* ------------------------------------------------------------------ bounds
NumThreads == 2
MaxTests == 2
DepthBound == 2
TypeDepth == 2

\* ------------------------------------------------------- program constants
\* number of nested Fixer(x).fix() calls the macro emits
FixLayers == 4

Threads == 1..NumThreads
Fixtures == {"A", "B"}
\* identity of the annotated function, as core::any::type_name::<F>() prints it
FnName == [A |-> "tests::step_1", B |-> "tests::step_2"]
\* value the body computes itself (before adding what it read)
Base == [A |-> 3, B |-> 4]
\* explicit errors a body may return, and panic payloads it may raise
Errors == {"disk full", "reticulated splines"}
Payloads == {"oops"}
\* the bodies this model considers: A reads nothing, B may read A
DepChoices == {[A |-> <<>>, B |-> <<>>], [A |-> <<>>, B |-> <<"A">>]}
Min(a, b) == IF a < b THEN a ELSE b
\* a body may declare at most FixLayers - 1 Result layers (the last fix must
\* reach the ReportSuccess wrapper for Unwrap to type-check)
Depths == 0..Min(DepthBound, FixLayers - 1)

\* ------------------------------------------------------------------ values
Ok(x) == [tag |-> "Ok", v |-> x]
Err(e) == [tag |-> "Err", e |-> e]
ReportSuccess(x) == [tag |-> "RS", v |-> x]
Val(n) == [tag |-> "Val", n |-> n]
Str(s) == [tag |-> "Str", s |-> s]
Panic(m) == [tag |-> "Panic", msg |-> m]
\* a &'static reference into the contents of fixture c's CELL
Ref(c, p) == [tag |-> "Ref", cell |-> c, path |-> p]
None == [tag |-> "None"]

VARIABLES
  depth,   \* depth[f]: number of Result layers of f's declared return type
  deps,    \* deps[f]: the fixtures f's body dereferences, in order
  cell,    \* cell[f]: the test function's static CELL (OnceCell)
  lazy,    \* lazy[f]: the static FIXTURE (Lazy<&T>)
  stack,   \* stack[t]: call stack of thread t
  ret,     \* ret[t]: value (or panic) just returned to the top frame of t
  runs,    \* number of tests the harness has started
  execs,   \* execs[f]: how many times f's body was entered
  bodyRet, \* bodyRet[f]: what the last execution of f's body produced
  done,    \* finished tests with their outcome
  expansion \* the macro call being expanded: its input and what it emitted

vars == <<expansion, depth, deps, cell, lazy, stack, ret, runs, execs, bodyRet, done>>

\* --------------------------------------------------------------- helpers
RECURSIVE At(_, _)
At(x, p) ==
  IF p = <<>> THEN x
  ELSE At(IF Head(p) = "v" THEN x.v ELSE x.e, Tail(p))

\* the value a reference points at
Deref(r) == At(cell[r.cell].val, r.path)

\* Result::as_ref on a &'static Result<T, E>
AsRef(r) ==
  IF Deref(r).tag = "Ok" THEN Ok(Ref(r.cell, Append(r.path, "v")))
  ELSE Err(Ref(r.cell, Append(r.path, "e")))

\* MakeResultRef is implemented for &'static Result<T, E> only
IsResultRef(x) == x.tag = "Ref" /\ Deref(x).tag \in {"Ok", "Err"}

MakeResultRef(x) == AsRef(x)

\* Fix for Fixer<T>: a plain value becomes an always-succeeding outcome
Fix(x) == Ok(ReportSuccess(x))

\* variant: method resolution always picks the trait method Fix::fix
FixerFixTraitOnly(x) == Fix(x)

\* Fixer(x).fix(): the inherent method (MakeResultRef) wins over the trait
FixerFix(x) == IF IsResultRef(x) THEN MakeResultRef(x) ELSE Fix(x)

\* Fixer(x).fix().map(|x| Fixer(x).fix().map(...)), n calls deep
RECURSIVE FixChain(_, _)
FixChain(x, n) ==
  LET r == FixerFix(x) IN
  IF n <= 1 \/ r.tag # "Ok" THEN r ELSE Ok(FixChain(r.v, n - 1))

\* what the generated test function returns once CELL is filled
TestFnResult(f) ==
  LET result == AsRef(Ref(f, <<>>)) IN
  IF result.tag = "Ok" THEN Ok(FixChain(result.v, FixLayers)) ELSE result

\* {:?} of an error: strings are printed quoted, references are transparent
RECURSIVE Debug(_)
Debug(e) ==
  IF e.tag = "Ref" THEN Debug(Deref(e))
  ELSE IF e.tag = "Str" THEN "\"" \o e.s \o "\""
  ELSE "?"

\* variant: borrows the whole stored outcome instead of descending to the leaf
StaticBorrowRoot(x) ==
  IF x.tag = "Ref" THEN Ref(x.cell, <<>>) ELSE Ref("A", <<>>)

RECURSIVE StaticBorrow(_)
StaticBorrow(x) ==
  IF x.tag = "Ref" THEN x ELSE StaticBorrow(x.v)

\* variant: formats the failure with {} instead of {:?}
RECURSIVE Display(_)
Display(e) == IF e.tag = "Ref" THEN Display(Deref(e)) ELSE IF e.tag = "Str" THEN e.s ELSE "?"

FailMessageDisplay(context, e) == context \o " failed: " \o Display(e)

FailMessage(context, e) == context \o " failed: " \o Debug(e)

\* variant: an Err layer is borrowed like a value instead of failing the caller
RECURSIVE UnwrapNoPanic(_, _)
UnwrapNoPanic(r, context) ==
  IF r.tag = "Ok" THEN UnwrapNoPanic(r.v, context)
  ELSE IF r.tag = "Err" THEN r.e
  ELSE StaticBorrow(r)

RECURSIVE Unwrap(_, _)
Unwrap(r, context) ==
  IF r.tag = "Ok" THEN Unwrap(r.v, context)
  ELSE IF r.tag = "Err" THEN Panic(FailMessage(context, r.e))
  ELSE StaticBorrow(r)

Context(f) == FnName[f]

\* helpers::unwrap(func), given what func() returned
HelperUnwrap(f, r) == Unwrap(r, Context(f))

\* Termination::report of the value a test returns: TRUE is success
\* variant: only the outermost layer decides the verdict
ReportShallow(r) == r.tag # "Err"

RECURSIVE Report(_)
Report(r) ==
  IF r.tag = "Ok" THEN Report(r.v)
  ELSE IF r.tag = "Err" THEN FALSE
  ELSE TRUE

\* std::panic::catch_unwind(|| body).map_err(|_| "panicked")
CatchUnwind(raw) ==
  IF raw.tag = "Panic" THEN Err(Str("panicked")) ELSE Ok(raw)

\* n Ok layers around x
RECURSIVE Wrap(_, _)
Wrap(x, n) == IF n = 0 THEN x ELSE Ok(Wrap(x, n - 1))

\* what a body of declared depth d may return or raise, having read values
\* that add up to acc
BodyOutcomes(f, d, acc) ==
  {Wrap(Val(Base[f] + acc), d)}
  \cup {Wrap(Err(Str(e)), k - 1) : e \in Errors, k \in 1..d}
  \cup {Panic(p) : p \in Payloads}

\* ----------------------------------------------------------------- frames
\* variant: one CELL shared by all generated test functions
FrameSharedCell(op, f, pc) ==
  [op |-> op, fx |-> IF op = "func" THEN "A" ELSE f, pc |-> pc, i |-> 1, acc |-> 0, got |-> None]

Frame(op, f, pc) == [op |-> op, fx |-> f, pc |-> pc, i |-> 1, acc |-> 0, got |-> None]
Top(t) == stack[t][Len(stack[t])]
Pop(t) == SubSeq(stack[t], 1, Len(stack[t]) - 1)
SetTop(t, fr) == [stack[t] EXCEPT ![Len(stack[t])] = fr]
HasTop(t, op, pc) == Len(stack[t]) > 0 /\ Top(t).op = op /\ Top(t).pc = pc

\* variant: a cell whose initializer is still running counts as filled
IsFilledEarly(c) == c.state # "incomplete"

\* variant: the fast path never sees the stored value
IsFilledNever(c) == FALSE

\* OnceCell: the fast path of get_or_init / get
IsFilled(c) == c.state = "complete"
\* variant: no once-check at all, every caller may run the initializer
CanClaimAlways(c) == TRUE

\* variant: a running initializer does not keep other callers out
CanClaimRacy(c) == c.state # "complete"

\* variant: a cell filled with a failure may be initialized again
CanClaimRetry(c) == c.state = "incomplete" \/ (c.state = "complete" /\ c.val.tag = "Err")

\* OnceCell: a caller may become the initializer only from the incomplete state
CanClaim(c) == c.state = "incomplete"

Init ==
  /\ depth \in [Fixtures -> Depths]
  /\ deps \in DepChoices
  /\ cell = [f \in Fixtures |-> [state |-> "incomplete", val |-> None]]
  /\ lazy = [f \in Fixtures |-> [state |-> "incomplete", init |-> TRUE, val |-> None]]
  /\ stack = [t \in Threads |-> <<>>]
  /\ ret = [t \in Threads |-> None]
  /\ runs = 0
  /\ execs = [f \in Fixtures |-> 0]
  /\ bodyRet = [f \in Fixtures |-> None]
  /\ done = {}
  /\ expansion = None

\* the harness starts the producing test of f on thread t
StartProducing(t, f) ==
  /\ stack[t] = <<>>
  /\ runs < MaxTests
  /\ runs' = runs + 1
  /\ stack' = [stack EXCEPT ![t] = <<Frame("test", f, "producing"), Frame("func", f, "call")>>]
  /\ UNCHANGED <<expansion, depth, deps, cell, lazy, ret, execs, bodyRet, done>>

\* the harness starts a dependent test on thread t that dereferences f
StartDependent(t, f) ==
  /\ stack[t] = <<>>
  /\ runs < MaxTests
  /\ runs' = runs + 1
  /\ stack' = [stack EXCEPT ![t] = <<Frame("test", f, "dependent"), Frame("lazy", f, "force")>>]
  /\ UNCHANGED <<expansion, depth, deps, cell, lazy, ret, execs, bodyRet, done>>

\* Lazy::force: cell.get_or_init(|| match init.take() { Some(f) => f(),
\* None => panic!("Lazy instance has previously been poisoned") })
PoisonMessage == "Lazy instance has previously been poisoned"

LazyForce(t) ==
  /\ HasTop(t, "lazy", "force")
  /\ ret[t] = None
  /\ LET f == Top(t).fx IN
     \/ /\ IsFilled(lazy[f])
        /\ stack' = [stack EXCEPT ![t] = Pop(t)]
        /\ ret' = [ret EXCEPT ![t] = lazy[f].val]
        /\ UNCHANGED lazy
     \/ /\ CanClaim(lazy[f])
        /\ lazy[f].init
        /\ lazy' = [lazy EXCEPT ![f].state = "running", ![f].init = FALSE]
        /\ stack' = [stack EXCEPT ![t] =
                       Append(SetTop(t, [Top(t) EXCEPT !.pc = "init"]), Frame("func", f, "call"))]
        /\ UNCHANGED ret
     \/ /\ CanClaim(lazy[f])
        /\ ~lazy[f].init
        /\ stack' = [stack EXCEPT ![t] = Pop(t)]
        /\ ret' = [ret EXCEPT ![t] = Panic(PoisonMessage)]
        /\ UNCHANGED lazy
  /\ UNCHANGED <<expansion, depth, deps, cell, runs, execs, bodyRet, done>>

\* the Lazy initializer `unwrap(func)` has its func() result
LazyInit(t) ==
  /\ HasTop(t, "lazy", "init")
  /\ ret[t] # None
  /\ LET f == Top(t).fx
         u == HelperUnwrap(f, ret[t]) IN
     /\ lazy' = IF u.tag = "Panic"
                THEN [lazy EXCEPT ![f].state = "incomplete"]
                ELSE [lazy EXCEPT ![f].state = "complete", ![f].val = u]
     /\ stack' = [stack EXCEPT ![t] = Pop(t)]
     /\ ret' = [ret EXCEPT ![t] = u]
  /\ UNCHANGED <<expansion, depth, deps, cell, runs, execs, bodyRet, done>>

\* generated test function: CELL.get_or_init(..)
FuncCall(t) ==
  /\ HasTop(t, "func", "call")
  /\ LET f == Top(t).fx IN
     \/ /\ IsFilled(cell[f])
        /\ stack' = [stack EXCEPT ![t] = SetTop(t, [Top(t) EXCEPT !.pc = "fix", !.got = cell[f].val])]
        /\ UNCHANGED <<cell, execs>>
     \/ /\ CanClaim(cell[f])
        /\ cell' = [cell EXCEPT ![f].state = "running"]
        /\ execs' = [execs EXCEPT ![f] = @ + 1]
        /\ stack' = [stack EXCEPT ![t] = SetTop(t, [Top(t) EXCEPT !.pc = "body"])]
  /\ UNCHANGED <<expansion, depth, deps, lazy, ret, runs, bodyRet, done>>

\* the body ends (returning or panicking); get_or_init stores the outcome
BodyEnd(t, f, raw) ==
  /\ cell' = [cell EXCEPT ![f] = [state |-> "complete", val |-> CatchUnwind(raw)]]
  /\ bodyRet' = [bodyRet EXCEPT ![f] = raw]
  /\ stack' = [stack EXCEPT ![t] = SetTop(t, [Top(t) EXCEPT !.pc = "fix", !.got = CatchUnwind(raw)])]
  /\ ret' = [ret EXCEPT ![t] = None]

\* the body dereferences the next fixture it depends on
BodyRead(t) ==
  /\ HasTop(t, "func", "body")
  /\ ret[t] = None
  /\ LET f == Top(t).fx IN
     /\ Top(t).i <= Len(deps[f])
     /\ stack' = [stack EXCEPT ![t] = Append(stack[t], Frame("lazy", deps[f][Top(t).i], "force"))]
  /\ UNCHANGED <<expansion, depth, deps, cell, lazy, ret, runs, execs, bodyRet, done>>

\* the dereference returned: a reference, or the panic unwinds the body
BodyResume(t) ==
  /\ HasTop(t, "func", "body")
  /\ ret[t] # None
  /\ LET f == Top(t).fx IN
     IF ret[t].tag = "Panic"
     THEN BodyEnd(t, f, ret[t])
     ELSE /\ stack' = [stack EXCEPT ![t] =
                         SetTop(t, [Top(t) EXCEPT !.i = @ + 1, !.acc = @ + Deref(ret[t]).n])]
          /\ ret' = [ret EXCEPT ![t] = None]
          /\ UNCHANGED <<cell, bodyRet>>
  /\ UNCHANGED <<expansion, depth, deps, lazy, runs, execs, done>>

\* the body has read all it depends on and finishes
BodyFinish(t) ==
  /\ HasTop(t, "func", "body")
  /\ ret[t] = None
  /\ LET f == Top(t).fx IN
     /\ Top(t).i > Len(deps[f])
     /\ \E raw \in BodyOutcomes(f, depth[f], Top(t).acc) : BodyEnd(t, f, raw)
  /\ UNCHANGED <<expansion, depth, deps, lazy, runs, execs, done>>

\* result.as_ref().map(|x| Fixer(x).fix()...) and return to the caller
FuncReturn(t) ==
  /\ HasTop(t, "func", "fix")
  /\ stack' = [stack EXCEPT ![t] = Pop(t)]
  /\ ret' = [ret EXCEPT ![t] = TestFnResult(Top(t).fx)]
  /\ UNCHANGED <<expansion, depth, deps, cell, lazy, runs, execs, bodyRet, done>>

\* the test ends: the harness reports what the producing test returned, or
\* the dependent test has its reference or dies with the panic
TestDone(t) ==
  /\ Len(stack[t]) = 1
  /\ ret[t] # None
  /\ LET fr == Top(t)
         out == IF fr.pc = "producing"
                THEN [tag |-> "Verdict", pass |-> Report(ret[t])]
                ELSE ret[t] IN
     done' = done \cup {[kind |-> fr.pc, fx |-> fr.fx, out |-> out]}
  /\ stack' = [stack EXCEPT ![t] = <<>>]
  /\ ret' = [ret EXCEPT ![t] = None]
  /\ UNCHANGED <<expansion, depth, deps, cell, lazy, runs, execs, bodyRet>>

Next ==
  \/ \E t \in Threads, f \in Fixtures : StartProducing(t, f)
  \/ \E t \in Threads, f \in Fixtures : StartDependent(t, f)
  \/ \E t \in Threads : LazyForce(t)
  \/ \E t \in Threads : LazyInit(t)
  \/ \E t \in Threads : FuncCall(t)
  \/ \E t \in Threads : BodyRead(t)
  \/ \E t \in Threads : BodyResume(t)
  \/ \E t \in Threads : BodyFinish(t)
  \/ \E t \in Threads : FuncReturn(t)
  \/ \E t \in Threads : TestDone(t)

Spec == Init /\ [][Next]_vars

\* everything a running test does on its own thread
ThreadStep(t) ==
  \/ LazyForce(t)
  \/ LazyInit(t)
  \/ FuncCall(t)
  \/ BodyRead(t)
  \/ BodyResume(t)
  \/ BodyFinish(t)
  \/ FuncReturn(t)
  \/ TestDone(t)

\* the harness runs every test on a thread of its own and the operating
\* system schedules every thread that can run; once_cell wakes the callers
\* blocked in get_or_init when the initializer ends
\* progress is decided by who holds which cell, not by the layers of the
\* value stored: the fair runs take bodies of plain return type, which end
\* by returning their value or by panicking
FairInit == Init /\ depth = [f \in Fixtures |-> 0]

FairSpec == FairInit /\ [][Next]_vars /\ \A t \in Threads : WF_vars(ThreadStep(t))

\* ------------------------------------------------------------- the macro
\* types as the macro sees them: a path type, the unit type, Result<T, E>
Named(n) == [k |-> "Named", name |-> n]
UnitType == [k |-> "Tuple", elems |-> <<>>]
ResultOf(t, e) == [k |-> "Result", ok |-> t, err |-> e]
StrRef == [k |-> "StrRef"]
RefTo(t) == [k |-> "Ref", to |-> t]
LazyOf(t) == [k |-> "Lazy", of |-> t]
OnceCellOf(t) == [k |-> "OnceCell", of |-> t]

RECURSIVE TypesUpTo(_)
TypesUpTo(n) ==
  IF n = 0 THEN {Named("HeavySetup"), Named("u32")}
  ELSE TypesUpTo(n - 1) \cup {ResultOf(t, StrRef) : t \in TypesUpTo(n - 1)}

Types == TypesUpTo(TypeDepth)

\* tokens of the attribute payload: attr* vis? ident (: ty)?
AttrTok == [t |-> "attr"]
VisTok == [t |-> "vis"]
IdentTok(n) == [t |-> "ident", name |-> n]
ColonTok == [t |-> "colon"]
TypeTok(ty) == [t |-> "type", ty |-> ty]

AttrInputs ==
  {a \o v \o <<IdentTok("SETUP")>> \o c :
     a \in {<<>>, <<AttrTok>>}, v \in {<<>>, <<VisTok>>},
     c \in {<<>>} \cup {<<ColonTok, TypeTok(ty)>> : ty \in Types}}

\* the annotated function's ReturnType
ReturnDefault == [k |-> "Default"]
ReturnType(ty) == [k |-> "Type", ty |-> ty]
ReturnInputs == {ReturnDefault} \cup {ReturnType(ty) : ty \in Types}

RECURSIVE SkipWhile(_, _)
SkipWhile(toks, kind) ==
  IF toks # <<>> /\ Head(toks).t = kind THEN SkipWhile(Tail(toks), kind) ELSE toks

\* Attr::parse
AttrParse(input) ==
  LET afterAttrs == SkipWhile(input, "attr")
      afterVis == IF afterAttrs # <<>> /\ Head(afterAttrs).t = "vis" THEN Tail(afterAttrs) ELSE afterAttrs
      ident == Head(afterVis)
      rest == Tail(afterVis) IN
  [attrs |-> Len(input) - Len(afterAttrs),
   vis |-> Len(afterAttrs) - Len(afterVis) = 1,
   ident |-> ident.name,
   ty |-> IF rest # <<>> /\ Head(rest).t = "colon" THEN rest[2].ty ELSE None]

\* let func_out = match replace(&mut func.sig.output, ReturnType::Default)
FuncOut(output) ==
  IF output.k = "Default" THEN UnitType ELSE output.ty

\* variant: the explicit type of the attribute is ignored
FixtureTyInferred(attr, func_out) == func_out

\* let fixture_ty = attr.ty.as_ref().unwrap_or(&func_out)
FixtureTy(attr, func_out) ==
  IF attr.ty # None THEN attr.ty ELSE func_out

\* the static binding and the static CELL of the quoted output
Emit(attr, func_out) ==
  [ident |-> attr.ident,
   binding |-> LazyOf(RefTo(FixtureTy(attr, func_out))),
   cell |-> OnceCellOf(ResultOf(func_out, StrRef))]

ExpandInit ==
  /\ expansion \in [st : {"input"}, attr : AttrInputs, output : ReturnInputs, emitted : {None}]
  /\ depth = [f \in Fixtures |-> 0]
  /\ deps = [f \in Fixtures |-> <<>>]
  /\ cell = [f \in Fixtures |-> [state |-> "incomplete", val |-> None]]
  /\ lazy = [f \in Fixtures |-> [state |-> "incomplete", init |-> TRUE, val |-> None]]
  /\ stack = [t \in Threads |-> <<>>]
  /\ ret = [t \in Threads |-> None]
  /\ runs = 0
  /\ execs = [f \in Fixtures |-> 0]
  /\ bodyRet = [f \in Fixtures |-> None]
  /\ done = {}

\* tested_fixture_helper: parse the attribute and the function, emit the code
Expand ==
  /\ expansion.st = "input"
  /\ expansion' = [expansion EXCEPT
                     !.st = "emitted",
                     !.emitted = Emit(AttrParse(expansion.attr), FuncOut(expansion.output))]
  /\ UNCHANGED <<depth, deps, cell, lazy, stack, ret, runs, execs, bodyRet, done>>

ExpandNext == Expand

ExpandSpec == ExpandInit /\ [][ExpandNext]_vars

TypeOK ==
  /\ \A f \in Fixtures : cell[f].state \in {"incomplete", "running", "complete"}
  /\ \A f \in Fixtures : lazy[f].state \in {"incomplete", "running", "complete"}
  /\ runs \in 0..MaxTests

\* ------------------------------------------------------------ properties
\* the body returned and every layer of what it returned is a success
RECURSIVE AllOk(_)
AllOk(raw) ==
  IF raw.tag = "Ok" THEN AllOk(raw.v) ELSE raw.tag = "Val"

\* the body returned an explicit error at some layer
RECURSIVE HasErr(_)
HasErr(raw) ==
  IF raw.tag = "Ok" THEN HasErr(raw.v) ELSE raw.tag = "Err"

\* the innermost thing the body returned: the leaf value or the error
RECURSIVE LeafOf(_)
LeafOf(raw) ==
  IF raw.tag = "Ok" THEN LeafOf(raw.v) ELSE IF raw.tag = "Err" THEN raw.e ELSE raw

BodySucceeded(f) == AllOk(bodyRet[f])
Quoted(s) == "\"" \o s \o "\""
ReplayMessage(f, s) == FnName[f] \o " failed: " \o Quoted(s)
InFunc(t, f, pc) == HasTop(t, "func", pc) /\ Top(t).fx = f
NoProducingRun ==
  /\ \A d \in done : d.kind # "producing"
  /\ \A t \in Threads : Len(stack[t]) > 0 => stack[t][1].pc # "producing"

\* C1: a fixture whose body succeeded has had its body executed exactly
\* once, and every test that finished with the fixture's value (producing
\* test passed, dependent read got a reference) finds exactly one execution.
C1_SingleExecution ==
  \A f \in Fixtures :
    /\ BodySucceeded(f) => execs[f] = 1
    /\ \A d \in done :
         (d.fx = f /\ (d.out.tag = "Ref" \/ (d.out.tag = "Verdict" /\ d.out.pass)))
           => (BodySucceeded(f) /\ execs[f] = 1)

C1_Witness ==
  \E f \in Fixtures :
    /\ BodySucceeded(f) /\ execs[f] = 1
    /\ \E d \in done : d.fx = f /\ d.kind = "producing" /\ d.out.pass
    /\ \E d \in done : d.fx = f /\ d.kind = "dependent" /\ d.out.tag = "Ref"

\* C2: if the body returned explicit error E, every finished dependent read
\* of the fixture failed with "<body identity> failed: <{:?} of E>".
C2_FailureReplay ==
  \A d \in done :
    (d.kind = "dependent" /\ HasErr(bodyRet[d.fx]))
      => d.out = Panic(ReplayMessage(d.fx, LeafOf(bodyRet[d.fx]).s))

\* C3: if the body panicked, the cell stores the sentinel "panicked" and
\* every finished dependent read failed with
\* "<body identity> failed: \"panicked\"".
C3_PanicNormalized ==
  \A f \in Fixtures :
    bodyRet[f].tag = "Panic" =>
      /\ cell[f].val = Err(Str("panicked"))
      /\ \A d \in done :
           (d.kind = "dependent" /\ d.fx = f) => d.out = Panic(ReplayMessage(f, "panicked"))

\* C4: while no producing test has been run, every finished dependent read
\* found the body executed exactly once and got a reference to the body's
\* value if the body succeeded and a failure otherwise; when B's body reads
\* A, the value read from B is B's own value plus A's and A ran once.
C4_OrderIndependence ==
  NoProducingRun =>
    \A d \in done :
      /\ execs[d.fx] = 1
      /\ BodySucceeded(d.fx) =>
           /\ d.out.tag = "Ref"
           /\ Deref(d.out) = LeafOf(bodyRet[d.fx])
           /\ deps[d.fx] = <<"A">> =>
                /\ execs["A"] = 1
                /\ BodySucceeded("A")
                /\ Deref(d.out).n = Base[d.fx] + LeafOf(bodyRet["A"]).n
      /\ ~BodySucceeded(d.fx) => d.out.tag = "Panic"

C4_Witness ==
  /\ NoProducingRun
  /\ deps["B"] = <<"A">>
  /\ \A d \in done : d.fx = "B"
  /\ \E d \in done : d.out.tag = "Ref" /\ Deref(d.out) = Val(7)
  /\ execs["A"] = 1

\* C5: a finished producing test passed exactly when the body's execution
\* succeeded at every layer without panicking, and the body ran only once
\* whether the producing test found the cell empty or already filled.
C5_ProducerVerdict ==
  \A d \in done :
    d.kind = "producing" => (d.out.pass = BodySucceeded(d.fx) /\ execs[d.fx] = 1)

C5_Witness ==
  \E f \in Fixtures :
    /\ HasErr(bodyRet[f]) /\ depth[f] = 2 /\ cell[f].val.v.tag = "Ok"
    /\ \E d \in done : d.fx = f /\ d.kind = "dependent" /\ d.out.tag = "Panic"
    /\ \E d \in done : d.fx = f /\ d.kind = "producing" /\ ~d.out.pass

\* C6: once the cell is filled with a failure, no step changes the cell or
\* executes the body again.
C6_NoRetry ==
  [][\A f \in Fixtures :
       (IsFilled(cell[f]) /\ ~AllOk(cell[f].val))
         => (cell'[f] = cell[f] /\ execs'[f] = execs[f])]_vars

C6_Witness ==
  \E f \in Fixtures :
    /\ IsFilled(cell[f]) /\ ~AllOk(cell[f].val) /\ execs[f] = 1
    /\ Cardinality({d \in done : d.fx = f}) >= 2

\* C7: at most one thread is ever inside the body of a fixture, the body is
\* executed at most once, and every caller that has returned from
\* get_or_init did so with the cell filled and holds the stored outcome.
C7_RaceSafe ==
  \A f \in Fixtures :
    /\ execs[f] <= 1
    /\ Cardinality({t \in Threads : \E k \in 1..Len(stack[t]) :
                      stack[t][k].op = "func" /\ stack[t][k].pc = "body" /\ stack[t][k].fx = f}) <= 1
    /\ \A t \in Threads : InFunc(t, f, "fix") => (IsFilled(cell[f]) /\ Top(t).got = cell[f].val)

C7_Witness ==
  \E f \in Fixtures : \E t1, t2 \in Threads :
    /\ t1 # t2
    /\ InFunc(t1, f, "fix") /\ InFunc(t2, f, "fix")
    /\ Top(t1).got = Top(t2).got

\* C8: a cell holds no outcome until it is filled, and a filled cell is
\* never changed by any step.
C8_WriteOnce ==
  [][\A f \in Fixtures :
       /\ (cell[f].val = None) = ~IsFilled(cell[f])
       /\ IsFilled(cell[f]) => cell'[f] = cell[f]]_vars

C8_Witness ==
  \E f \in Fixtures :
    /\ IsFilled(cell[f]) /\ cell[f].val = CatchUnwind(bodyRet[f])
    /\ runs = MaxTests
    /\ \A t \in Threads : stack[t] = <<>>
    /\ \A d \in done : d.fx = f

\* C9: for a body of plain return type that returned v, every finished
\* dependent read got a reference, and the reference denotes v.
C9_PlainValue ==
  \A d \in done :
    (d.kind = "dependent" /\ depth[d.fx] = 0 /\ bodyRet[d.fx].tag = "Val")
      => (d.out.tag = "Ref" /\ Deref(d.out) = bodyRet[d.fx])

C9_Witness ==
  \E f \in Fixtures : \E t \in Threads :
    /\ depth[f] = 0 /\ bodyRet[f].tag = "Val"
    /\ \E d \in done : d.kind = "dependent" /\ d.fx = f /\ d.out.tag = "Ref"
    /\ Len(stack[t]) = 1 /\ Top(t).pc = "dependent" /\ Top(t).fx = f
    /\ ret[t].tag = "Ref"

\* the stored outcome seen from the outside in: how many success layers
\* precede the first failure or the leaf
RECURSIVE OkPrefix(_)
OkPrefix(x) == IF x.tag = "Ok" THEN 1 + OkPrefix(x.v) ELSE 0

\* C10: when the binding's initializer unwraps what the test function
\* returned, the result is a reference to the leaf of the stored outcome if
\* every layer is a success, and otherwise the failure
\* "<identity of the fixture's body> failed: <{:?} of the outermost failure>".
C10_UnwrapLayers ==
  [][\A t \in Threads :
       (HasTop(t, "lazy", "init") /\ ret[t] # None /\ stack'[t] = Pop(t)) =>
         LET f == Top(t).fx
             k == OkPrefix(cell[f].val)
             path == [j \in 1..k |-> "v"]
             inner == At(cell[f].val, path) IN
         ret'[t] = IF inner.tag = "Err"
                   THEN Panic(ReplayMessage(f, inner.e.s))
                   ELSE Ref(f, path)]_vars

C10_Witness ==
  \E t \in Threads : \E e \in Errors :
    /\ Len(stack[t]) = 1 /\ Top(t).pc = "dependent"
    /\ cell[Top(t).fx].val = Ok(Ok(Err(Str(e))))
    /\ ret[t] = Panic(ReplayMessage(Top(t).fx, e))

\* the body ran and did not succeed at every layer
BodyFailed(f) == bodyRet[f] # None /\ ~AllOk(bodyRet[f])

\* the place of the leaf in a cell whose stored outcome is a full success
LeafPath(f) == [j \in 1..OkPrefix(cell[f].val) |-> "v"]

BindingSound(f) ==
  IF IsFilled(lazy[f])
  THEN /\ IsFilled(cell[f])
       /\ AllOk(cell[f].val)
       /\ lazy[f].val = Ref(f, LeafPath(f))
       /\ Deref(lazy[f].val) = LeafOf(bodyRet[f])
  ELSE lazy[f].val = None

\* C11: an initialized binding implies a cell filled with a full success
\* and holds the reference to that cell's leaf value; a binding that is not
\* initialized holds nothing; once the binding is initialized no step
\* changes the binding or the cell.
C11_BindingBorrowsCell ==
  [][\A f \in Fixtures :
       /\ BindingSound(f)
       /\ BindingSound(f)'
       /\ IsFilled(lazy[f]) => (lazy'[f] = lazy[f] /\ cell'[f] = cell[f])]_vars

C11_Witness ==
  \E f \in Fixtures :
    /\ depth[f] = 2
    /\ IsFilled(lazy[f])
    /\ lazy[f].val = Ref(f, <<"v", "v", "v">>)
    /\ \E t \in Threads : HasTop(t, "func", "fix") /\ Top(t).fx = f /\ Len(stack[t]) = 2

\* C12: every finished dependent read of a fixture whose body failed (an
\* explicit error at any layer, or a panic) ended in a failure of the
\* reading test, never in a reference; so did every read that has just
\* returned to a dependent test.
C12_FailedNeverYields ==
  /\ \A d \in done :
       (d.kind = "dependent" /\ BodyFailed(d.fx)) => d.out.tag = "Panic"
  /\ \A t \in Threads :
       (Len(stack[t]) = 1 /\ Top(t).pc = "dependent" /\ ret[t] # None /\ BodyFailed(Top(t).fx))
         => ret[t].tag = "Panic"

C12_Witness ==
  \E f \in Fixtures :
    /\ BodyFailed(f)
    /\ ~lazy[f].init /\ lazy[f].state = "incomplete"
    /\ \E d \in done : d.kind = "dependent" /\ d.fx = f /\ d.out = Panic(PoisonMessage)
    /\ \E d \in done : d.kind = "dependent" /\ d.fx = f /\ d.out.tag = "Panic" /\ d.out # Panic(PoisonMessage)

\* C13: if B's body reads A and A's body returned explicit error E, then
\* B's body panicked, B's cell stores "panicked", and every finished
\* dependent read of B failed with "<B's identity> failed: \"panicked\"".
C13_ChainedFailure ==
  (deps["B"] = <<"A">> /\ HasErr(bodyRet["A"]) /\ bodyRet["B"] # None) =>
    /\ bodyRet["B"].tag = "Panic"
    /\ execs["B"] = 1
    /\ cell["B"].val = Err(Str("panicked"))
    /\ \A d \in done :
         (d.kind = "dependent" /\ d.fx = "B") => d.out = Panic(ReplayMessage("B", "panicked"))

\* the fixtures the body of f dereferences
ReadsOf(f) == {deps[f][j] : j \in 1..Len(deps[f])}

Touched(g) == cell'[g] # cell[g] \/ lazy'[g] # lazy[g] \/ execs'[g] # execs[g]

\* C15: a step changes the cell, the binding or the execution count of
\* fixture g only if it is a step of a test that accesses g itself or a
\* fixture whose body reads g.
C15_Independent ==
  [][\A g \in Fixtures :
       Touched(g) =>
         \E t \in Threads :
           /\ stack'[t] # stack[t]
           /\ Len(stack[t]) > 0
           /\ (stack[t][1].fx = g \/ g \in ReadsOf(stack[t][1].fx))]_vars

C15_Witness ==
  /\ deps["B"] = <<>>
  /\ \E d \in done : d.fx = "B" /\ d.kind = "producing"
  /\ \E d \in done : d.fx = "B" /\ d.kind = "dependent"
  /\ cell["A"].state = "incomplete" /\ lazy["A"].state = "incomplete" /\ lazy["A"].init
  /\ execs["A"] = 0

\* C14: under fair scheduling every started test (producing run or
\* dependent read, including the callers blocked while another thread runs
\* the initializer) eventually ends, with a value or a failure.
C14_Progress ==
  \A t \in Threads : (stack[t] # <<>>) ~> (stack[t] = <<>>)

C14_Witness ==
  \E f \in Fixtures : \E t1, t2 \in Threads :
    /\ t1 # t2
    /\ HasTop(t1, "lazy", "force") /\ Top(t1).fx = f /\ lazy[f].state = "running"
    /\ HasTop(t2, "func", "body") /\ Top(t2).fx = f

\* the type written after ':' in the attribute payload, if there is one
ExplicitType(input) ==
  IF \E j \in 1..Len(input) : input[j].t = "colon" THEN input[Len(input)].ty ELSE None

\* C16: the emitted binding is a Lazy reference to the type written after
\* ':' in the attribute when there is one, otherwise to the function's
\* declared return type (the unit type when it declares none); the emitted
\* cell always stores the function's declared return type (or unit) as the
\* success side of its Result.
C16_TypeResolution ==
  expansion.st = "emitted" =>
    LET declared == IF expansion.output.k = "Default" THEN UnitType ELSE expansion.output.ty
        explicit == ExplicitType(expansion.attr) IN
    /\ expansion.emitted.binding.of.to = (IF explicit # None THEN explicit ELSE declared)
    /\ expansion.emitted.cell.of.ok = declared

C16_Witness ==
  /\ expansion.st = "emitted"
  /\ ExplicitType(expansion.attr) = Named("HeavySetup")
  /\ expansion.output = ReturnType(ResultOf(Named("HeavySetup"), StrRef))
  /\ expansion.emitted.binding = LazyOf(RefTo(Named("HeavySetup")))
  /\ expansion.emitted.cell = OnceCellOf(ResultOf(ResultOf(Named("HeavySetup"), StrRef), StrRef))
====
